---- MODULE Spec2Model ----
(***************************************************************************)
(* Personal blog platform (src/script.js): the post repository, its        *)
(* localStorage persistence and the list/detail/modal view-state.          *)
(*                                                                         *)
(* A JavaScript string is a sequence of one-character strings, so that     *)
(* trim() and length are computed.  A JavaScript object is a record        *)
(* [keys, f]: keys is the property insertion order, f the property values. *)
(* JSON text is a tree of tagged values [t, v].                            *)
(***************************************************************************)
EXTENDS Integers, Sequences, FiniteSets, TLC

VARIABLES
    posts,                \* script.js:12  let posts = []  (the array's elements)
    postsType,            \* the JS type of the value held by `posts` ("arr" unless loadPosts returned something else)
    store,                \* localStorage item STORAGE_KEY
    currentEditId,        \* script.js:13
    currentView,          \* script.js:14
    currentDetailPostId,  \* script.js:15
    currentRatingPostId,  \* script.js:176
    listShown,            \* the cards in postsContainer, as renderPosts left them
    detailShown,          \* what postDetail displays while it is active, Null while it is hidden
    phase,                \* "boot" (script evaluated, init not yet run), "running", "crashed" (init threw)
    quota,                \* what localStorage can hold for this origin: <<>> no limit, <<n>> n characters
    last,                 \* the call made by the last step and what it returned / reported
    viewCalls             \* per post (by position): successful incrementViews calls naming its id; -1 = not counted

vars == <<posts, postsType, store, currentEditId, currentView,
          currentDetailPostId, currentRatingPostId, listShown, detailShown,
          phase, quota, last, viewCalls>>

ui == <<currentEditId, currentView, currentDetailPostId, currentRatingPostId>>
dom == <<listShown, detailShown>>

-----------------------------------------------------------------------------
(* Bounds of the model *)

MaxPosts == 2      \* posts in the collection
MaxSize == 3       \* posts + ratings + views in the collection
MaxPostsF == 1     \* the same two bounds where setItem may throw
MaxSizeF == 3
MaxPostsUI == 2    \* the same two bounds where the page is used through its controls
MaxSizeUI == 5
MaxSizeS == 4      \* the size bound where any of the five stars is clicked
MaxPostsV == 1     \* posts in the collection where the forms are varied
MaxCards == 2      \* cards rendered where the averages are varied
MaxPostsM == 1     \* posts in the collection where requests name a missing id
MaxSample == 19    \* ratings of the post whose average is taken, before one more is added

(* Program constants *)

MinTitleLen == 3
MaxTitleLen == 100
MinContentLen == 10
NumStars == 5
MantissaBits == 52   \* of the Number type
LongContentLen == 200

Null == <<>>       \* null (ids are non-empty tuples)

-----------------------------------------------------------------------------
(* Strings *)

Rep(c, n) == [i \in 1..n |-> c]

IsSpace(c) == c \in {" ", "\t", "\n"}

RECURSIVE TrimStart(_)
TrimStart(s) ==
    IF s = <<>> THEN s
    ELSE IF IsSpace(Head(s)) THEN TrimStart(Tail(s)) ELSE s

RECURSIVE TrimEnd(_)
TrimEnd(s) ==
    IF s = <<>> THEN s
    ELSE IF IsSpace(s[Len(s)]) THEN TrimEnd(SubSeq(s, 1, Len(s) - 1)) ELSE s

TrimStartOnly(s) == TrimStart(s)

\* String.prototype.trim
Trim(s) == TrimEnd(TrimStart(s))

\* script.js:25  Date.now().toString(36) + Math.random().toString(36).substr(2)
generateId(now, rnd) == <<now, rnd>>

-----------------------------------------------------------------------------
(* Objects *)

Has(o, k) == k \in DOMAIN o.f

\* o[k] = v : a new property goes last in the insertion order
Put(o, k, v) ==
    [keys |-> IF Has(o, k) THEN o.keys ELSE Append(o.keys, k),
     f    |-> [x \in (DOMAIN o.f) \cup {k} |-> IF x = k THEN v ELSE o.f[x]]]

\* the object literal of addPost, script.js:86-93
NewPost(id, title, content, timestamp) ==
    [keys |-> <<"id", "title", "content", "timestamp", "ratings", "views">>,
     f    |-> [id |-> id, title |-> title, content |-> content,
               timestamp |-> timestamp, ratings |-> <<>>, views |-> 0]]

\* the object literal of the first release's addPost, script.js:1011-1016
LegacyPost(id, title, content, timestamp) ==
    [keys |-> <<"id", "title", "content", "timestamp">>,
     f    |-> [id |-> id, title |-> title, content |-> content,
               timestamp |-> timestamp]]

-----------------------------------------------------------------------------
(* JSON *)

JNull == [t |-> "null", v |-> 0]
JNum(n) == [t |-> "num", v |-> n]
JStr(s) == [t |-> "str", v |-> s]
JArr(a) == [t |-> "arr", v |-> a]
JObj(m) == [t |-> "obj", v |-> m]

\* JSON.stringify of a property value, by the type the property holds
StringifyValue(k, v) ==
    CASE k = "ratings"               -> JArr([i \in 1..Len(v) |-> JNum(v[i])])
      [] k \in {"timestamp", "views"} -> JNum(v)
      [] OTHER                       -> JStr(v)

StringifyPostNoViews(o) ==
    LET ks == SelectSeq(o.keys, LAMBDA k : k # "views")
    IN  JObj([i \in 1..Len(ks) |-> <<ks[i], StringifyValue(ks[i], o.f[ks[i]])>>])

\* JSON.stringify of one post: its properties in insertion order
StringifyPost(o) ==
    JObj([i \in 1..Len(o.keys) |-> <<o.keys[i], StringifyValue(o.keys[i], o.f[o.keys[i]])>>])

\* JSON.stringify(posts), script.js:61
Stringify(ps) == JArr([i \in 1..Len(ps) |-> StringifyPost(ps[i])])

ParseValue(j) ==
    IF j.t = "arr" THEN [i \in 1..Len(j.v) |-> j.v[i].v] ELSE j.v

ParseMember(m, k) == ParseValue(m[CHOOSE i \in 1..Len(m) : m[i][1] = k][2])

ParsePostCanonical(j) ==
    LET names == {j.v[i][1] : i \in 1..Len(j.v)}
    IN  [keys |-> SelectSeq(<<"id", "title", "content", "timestamp", "ratings", "views">>,
                            LAMBDA k : k \in names),
         f    |-> [k \in names |-> ParseMember(j.v, k)]]

\* JSON.parse of one element of the array: properties in the order of the text
ParsePost(j) ==
    [keys |-> [i \in 1..Len(j.v) |-> j.v[i][1]],
     f    |-> [k \in {j.v[i][1] : i \in 1..Len(j.v)} |-> ParseMember(j.v, k)]]

\* JSON.parse of a text that parses, script.js:74 : a JS value [t, v]
Parse(j) ==
    IF j.t = "arr" THEN [t |-> "arr", v |-> [i \in 1..Len(j.v) |-> ParsePost(j.v[i])]]
    ELSE [t |-> j.t, v |-> 0]

-----------------------------------------------------------------------------
(* localStorage *)

Absent  == [kind |-> "absent",  text |-> JNull]   \* getItem returns null
Empty   == [kind |-> "empty",   text |-> JNull]   \* the empty string
Garbage == [kind |-> "garbage", text |-> JNull]   \* a text JSON.parse rejects
Text(j) == [kind |-> "text", text |-> j]          \* a JSON text

\* the characters of a string property of every post
RECURSIVE Chars(_, _)
Chars(ps, k) == IF ps = <<>> THEN 0 ELSE Len(Head(ps).f[k]) + Chars(Tail(ps), k)

\* localStorage.setItem throws (QuotaExceededError) when the text does not fit
\* the quota; the text is measured by the characters of its titles and contents
setItemThrows(ps, q) == q # <<>> /\ Chars(ps, "title") + Chars(ps, "content") > q[1]

SavePostsSilent(ps, st, q) ==
    IF setItemThrows(ps, q)
    THEN [store |-> st, alerts |-> <<>>]
    ELSE [store |-> Text(Stringify(ps)), alerts |-> <<>>]

\* savePosts, script.js:59-66
savePosts(ps, st, q) ==
    IF setItemThrows(ps, q)
    THEN [store |-> st, alerts |-> <<"Failed to save posts">>]
    ELSE [store |-> Text(Stringify(ps)), alerts |-> <<>>]

EmptyArray == [t |-> "arr", v |-> <<>>]

\* loadPosts, script.js:71-79 : the JS value returned, and what console.error got
loadPosts(st) ==
    CASE st.kind = "text"    -> [value |-> Parse(st.text), errors |-> <<>>]
      [] st.kind = "garbage" -> [value |-> EmptyArray, errors |-> <<"Error loading from localStorage">>]
      [] OTHER               -> [value |-> EmptyArray, errors |-> <<>>]

-----------------------------------------------------------------------------
(* Post repository: each function maps the array, the stored item and its  *)
(* arguments to the new array, the new stored item, the value returned,    *)
(* the number of setItem calls made and the alerts shown.                  *)

\* Array.prototype.findIndex with (post) => post.id === id
findIndex(ps, id) ==
    IF \E i \in 1..Len(ps) : ps[i].f.id = id
    THEN CHOOSE i \in 1..Len(ps) :
            /\ ps[i].f.id = id
            /\ \A j \in 1..(i - 1) : ps[j].f.id # id
    ELSE -1

\* posts.unshift(post), script.js:95
Push(ps, post) == ps \o <<post>>

Unshift(ps, post) == <<post>> \o ps

\* posts.splice(postIndex, 1), script.js:125
Splice(ps, i) == SubSeq(ps, 1, i - 1) \o SubSeq(ps, i + 1, Len(ps))

OverwriteKeepsTime(post, title, content, now) ==
    Put(Put(post, "title", Trim(title)), "content", Trim(content))

OverwriteAsNew(post, title, content, now) ==
    NewPost(post.f.id, Trim(title), Trim(content), now)

\* the three assignments of updatePost, script.js:107-109
Overwrite(post, title, content, now) ==
    Put(Put(Put(post, "title", Trim(title)), "content", Trim(content)), "timestamp", now)

ReplaceRatings(post, rating) == Put(post, "ratings", <<rating>>)

PushRatingIfPresent(post, rating) ==
    IF Has(post, "ratings") THEN Put(post, "ratings", Append(post.f.ratings, rating)) ELSE post

\* script.js:193-197
PushRating(post, rating) ==
    LET p == IF Has(post, "ratings") THEN post ELSE Put(post, "ratings", <<>>)
    IN  Put(p, "ratings", Append(p.f.ratings, rating))

\* script.js:236-239  (a property that is absent is not a number)
BumpViewsTwice(post) ==
    LET p == IF Has(post, "views") THEN post ELSE Put(post, "views", 0)
    IN  Put(p, "views", p.f.views + 2)

BumpViews(post) ==
    LET p == IF Has(post, "views") THEN post ELSE Put(post, "views", 0)
    IN  Put(p, "views", p.f.views + 1)

Result(ps, sv, ret, id) ==
    [posts |-> ps, store |-> sv.store, ret |-> ret, id |-> id,
     writes |-> 1, alerts |-> sv.alerts]

NotFoundSaves(ps, st, id) ==
    [posts |-> ps, store |-> Text(Stringify(ps)), ret |-> "false", id |-> id,
     writes |-> 1, alerts |-> <<>>]

\* return false, script.js:114, 130, 202, 243
NotFound(ps, st, id) ==
    [posts |-> ps, store |-> st, ret |-> "false", id |-> id,
     writes |-> 0, alerts |-> <<>>]

\* script.js:85-98 ; t1, rnd: generateId's clock and random values, t2: the timestamp
addPost(ps, st, title, content, t1, rnd, t2, q) ==
    LET post == NewPost(generateId(t1, rnd), Trim(title), Trim(content), t2)
        ps2  == Unshift(ps, post)
    IN  Result(ps2, savePosts(ps2, st, q), "post", post.f.id)

\* script.js:103-115
updatePost(ps, st, id, title, content, now, q) ==
    LET i == findIndex(ps, id) IN
    IF i # -1
    THEN LET ps2 == [ps EXCEPT ![i] = Overwrite(ps[i], title, content, now)]
         IN  Result(ps2, savePosts(ps2, st, q), "true", id)
    ELSE NotFound(ps, st, id)

\* script.js:121-131
deletePost(ps, st, id, q) ==
    LET i == findIndex(ps, id) IN
    IF i # -1
    THEN LET ps2 == Splice(ps, i)
         IN  Result(ps2, savePosts(ps2, st, q), "true", id)
    ELSE NotFound(ps, st, id)

\* script.js:137-139
getPostById(ps, id) ==
    LET i == findIndex(ps, id) IN IF i # -1 THEN ps[i] ELSE Null

\* script.js:188-203
addRating(ps, st, id, rating, q) ==
    LET i == findIndex(ps, id) IN
    IF i # -1
    THEN LET ps2 == [ps EXCEPT ![i] = PushRating(ps[i], rating)]
         IN  Result(ps2, savePosts(ps2, st, q), "true", id)
    ELSE NotFound(ps, st, id)

\* script.js:233-244
incrementViews(ps, st, id, q) ==
    LET i == findIndex(ps, id) IN
    IF i # -1
    THEN LET ps2 == [ps EXCEPT ![i] = BumpViews(ps[i])]
         IN  Result(ps2, savePosts(ps2, st, q), "true", id)
    ELSE NotFound(ps, st, id)

\* script.js:224-226
getRatingCount(post) == IF Has(post, "ratings") THEN Len(post.f.ratings) ELSE 0

\* post.ratings.reduce((acc, rating) => acc + rating, 0), script.js:215
RECURSIVE Reduce(_)
Reduce(rs) == IF rs = <<>> THEN 0 ELSE Head(rs) + Reduce(Tail(rs))

RECURSIVE PowMod(_, _, _)
PowMod(b, k, m) == IF k = 0 THEN 1 % m ELSE (b * PowMod(b, k - 1, m)) % m

\* the exponent of the double s / n, for 1 <= s / n < 8
Exponent(s, n) == IF s >= 4 * n THEN 2 ELSE IF s >= 2 * n THEN 1 ELSE 0

\* sum / post.ratings.length, script.js:216 : how the double nearest to s / n
\* (round to nearest, ties to even, MantissaBits bits after the leading one)
\* compares with s / n
Quotient(s, n) ==
    LET k == MantissaBits - Exponent(s, n)
        x == (s * PowMod(2, k, 2 * n)) % (2 * n)   \* s * 2^k modulo 2n
        r == x % n                                 \* the part of s * 2^k / n that is cut
    IN  CASE r = 0     -> "exact"
          [] 2 * r < n -> "below"
          [] 2 * r > n -> "above"
          [] OTHER     -> IF x < n THEN "below" ELSE "above"

ToFixed1Truncates(s, n) == (10 * s) \div n

\* (s / n).toFixed(1), script.js:216, in tenths: the integer N with N / 10
\* nearest to the double, the larger N when two are as near
ToFixed1(s, n) ==
    LET a == (10 * s) \div n
        rem == (10 * s) % n
    IN  CASE 2 * rem < n -> a
          [] 2 * rem > n -> a + 1
          [] OTHER       -> IF Quotient(s, n) = "below" THEN a ELSE a + 1

\* script.js:210-217 : the number 0, or the string toFixed returns (in tenths)
getAverageRating(post) ==
    IF ~Has(post, "ratings") \/ Len(post.f.ratings) = 0
    THEN [type |-> "number", tenths |-> 0]
    ELSE [type |-> "string", tenths |-> ToFixed1(Reduce(post.f.ratings), Len(post.f.ratings))]

-----------------------------------------------------------------------------
(* Inputs *)

TitleA == <<" ", "a", "b", "c", " ">>
TitleB == <<"a", "b", "c", "d">>
ContentA == <<" ">> \o Rep("x", 10) \o <<"\n">>
ContentB == Rep("y", 11)

\* the calls made with a (title, content): the arguments, and what Date.now()
\* and Math.random() return during the call
Texts == {[title |-> TitleA, content |-> ContentA, now |-> 1, rnd |-> 1],
          [title |-> TitleB, content |-> ContentB, now |-> 2, rnd |-> 1]}

Ratings == {3, 5}

MissingId == generateId(0, 0)      \* an id no post has

\* the ids the callers pass: those of the posts, and one that is missing
Targets(ps) == {ps[i].f.id : i \in 1..Len(ps)} \cup {MissingId}

\* what localStorage may hold when the page is opened
LegacyBlob == Stringify(<<LegacyPost(generateId(1, 1), Trim(TitleA), Trim(ContentA), 1)>>)
InitialStores == <<Absent, Empty, Garbage, Text(JNull), Text(JNum(5))>>

ViewsOf(post) == IF Has(post, "views") THEN post.f.views ELSE 0

RECURSIVE Size(_)
Size(ps) ==
    IF ps = <<>> THEN 0
    ELSE 1 + getRatingCount(Head(ps)) + ViewsOf(Head(ps)) + Size(Tail(ps))

-----------------------------------------------------------------------------
(* Rendering *)

\* rating % 1 >= 0.5 with > in the place of >=
StarDisplayAboveHalf(rating) ==
    [i \in 1..NumStars |->
        IF i - 1 < rating.tenths \div 10 THEN "filled"
        ELSE IF i - 1 = rating.tenths \div 10 /\ rating.tenths % 10 > 5 THEN "half"
        ELSE "empty"]

\* generateStarDisplay(rating), script.js:251-268 : the classes of the five
\* spans.  rating is the number 0 or the string of toFixed(1), n tenths;
\* Math.floor and % convert it to the double nearest to n / 10, whose integer
\* part is n \div 10 and whose remainder is 0.5 when n % 10 = 5 (exact in
\* binary) and within 2^-50 of (n % 10) / 10 otherwise
generateStarDisplay(rating) ==
    LET fullStars == rating.tenths \div 10
        hasHalfStar == rating.tenths % 10 >= 5
    IN  [i \in 1..NumStars |->
            IF i - 1 < fullStars THEN "filled"
            ELSE IF i - 1 = fullStars /\ hasHalfStar THEN "half"
            ELSE "empty"]

\* the rating part of a card, script.js:400-408 : the stars and the average
StarsOfCard(rating) == [average |-> rating, stars |-> generateStarDisplay(rating)]

\* what createPostCard (script.js:371-443) and showPostDetail (script.js:508-561)
\* put on the page for a post
Display(post) ==
    [id |-> post.f.id, title |-> post.f.title, content |-> post.f.content,
     long |-> Len(post.f.content) > LongContentLen, timestamp |-> post.f.timestamp, views |-> ViewsOf(post),
     average |-> getAverageRating(post), count |-> getRatingCount(post)]

\* renderPosts, script.js:342-364 : the cards it leaves in postsContainer
renderPosts(ps) == [i \in 1..Len(ps) |-> Display(ps[i])]

-----------------------------------------------------------------------------
(* State *)

Call(op, id, ret, writes, alerts, title, content, rating) ==
    [op |-> op, id |-> id, ret |-> ret, writes |-> writes, alerts |-> alerts,
     title |-> title, content |-> content, rating |-> rating, from |-> "list",
     confirm |-> "none"]

NoCall(op) == Call(op, Null, "void", 0, <<>>, <<>>, <<>>, 0)

\* the script's top-level declarations, script.js:12-15 and 176
Init ==
    /\ posts = <<>>
    /\ postsType = "arr"
    /\ \E i \in 1..Len(InitialStores) : store = InitialStores[i]
    /\ currentEditId = Null
    /\ currentView = "list"
    /\ currentDetailPostId = Null
    /\ currentRatingPostId = Null
    /\ listShown = <<>>
    /\ detailShown = Null
    /\ phase = "boot"
    /\ quota = <<>>
    /\ last = NoCall("load")
    /\ viewCalls = <<>>

\* renderPosts, script.js:342-364, throws unless posts is an array
renderPostsThrows(value) == value.t # "arr"

\* init, script.js:871-915
init ==
    /\ phase = "boot"
    /\ LET loaded == loadPosts(store) IN
        /\ postsType' = loaded.value.t
        /\ posts' = IF loaded.value.t = "arr" THEN loaded.value.v ELSE <<>>
        /\ phase' = IF renderPostsThrows(loaded.value) THEN "crashed" ELSE "running"
        /\ listShown' = IF loaded.value.t = "arr" THEN renderPosts(loaded.value.v) ELSE <<>>
        /\ detailShown' = Null
        /\ last' = Call("init", Null, "void", 0, loaded.errors, <<>>, <<>>, 0)
        /\ viewCalls' = IF loaded.value.t = "arr"
                        THEN [i \in 1..Len(loaded.value.v) |->
                                IF Has(loaded.value.v[i], "views")
                                THEN loaded.value.v[i].f.views ELSE -1]
                        ELSE <<>>
    /\ UNCHANGED <<store, ui, quota>>

\* the page is reloaded: the script is evaluated again, the stored item stays
Reload ==
    /\ phase \in {"running", "crashed"}
    /\ posts' = <<>>
    /\ postsType' = "arr"
    /\ currentEditId' = Null
    /\ currentView' = "list"
    /\ currentDetailPostId' = Null
    /\ currentRatingPostId' = Null
    /\ listShown' = <<>>
    /\ detailShown' = Null
    /\ phase' = "boot"
    /\ last' = NoCall("load")
    /\ viewCalls' = <<>>
    /\ UNCHANGED <<store, quota>>

\* the effect of a repository call r on the repository's state
Apply(r, op, title, content, rating) ==
    /\ posts' = r.posts
    /\ store' = r.store
    /\ last' = IF r.ret = "false" THEN Call(op, r.id, r.ret, r.writes, r.alerts, <<>>, <<>>, 0)
               ELSE Call(op, r.id, r.ret, r.writes, r.alerts, title, content, rating)

Within(ps, maxPosts, maxSize) == Len(ps) <= maxPosts /\ Size(ps) <= maxSize

\* addPost(title, content) called
AddPostCall(maxPosts, maxSize) ==
    /\ phase = "running"
    /\ \E x \in Texts :
        LET r == addPost(posts, store, x.title, x.content, x.now, x.rnd, x.now, quota) IN
        /\ Within(r.posts, maxPosts, maxSize)
        /\ Apply(r, "addPost", x.title, x.content, 0)
        /\ viewCalls' = <<0>> \o viewCalls
    /\ UNCHANGED <<postsType, ui, dom, phase, quota>>

\* updatePost(id, title, content) called
UpdatePostCall ==
    /\ phase = "running"
    /\ \E id \in Targets(posts), x \in Texts :
        LET r == updatePost(posts, store, id, x.title, x.content, x.now, quota) IN
        Apply(r, "updatePost", x.title, x.content, 0)
    /\ UNCHANGED <<postsType, ui, dom, phase, quota, viewCalls>>

\* deletePost(id) called
DeletePostCall ==
    /\ phase = "running"
    /\ \E id \in Targets(posts) :
        LET r == deletePost(posts, store, id, quota) IN
        /\ Apply(r, "deletePost", <<>>, <<>>, 0)
        /\ viewCalls' = IF r.ret = "true" THEN Splice(viewCalls, findIndex(posts, id))
                        ELSE viewCalls
    /\ UNCHANGED <<postsType, ui, dom, phase, quota>>

\* addRating(postId, rating) called
AddRatingCall(maxPosts, maxSize) ==
    /\ phase = "running"
    /\ \E id \in Targets(posts), rating \in Ratings :
        LET r == addRating(posts, store, id, rating, quota) IN
        /\ Within(r.posts, maxPosts, maxSize)
        /\ Apply(r, "addRating", <<>>, <<>>, rating)
    /\ UNCHANGED <<postsType, ui, dom, phase, quota, viewCalls>>

\* one more successful incrementViews(id): counted for every post having that id
\* (the count stops at cap, which no post's views can exceed)
Counted(ps, calls, id, cap) ==
    [i \in 1..Len(calls) |->
        IF ps[i].f.id = id /\ calls[i] >= 0 /\ calls[i] < cap THEN calls[i] + 1 ELSE calls[i]]

\* incrementViews(postId) called
IncrementViewsCall(maxPosts, maxSize) ==
    /\ phase = "running"
    /\ \E id \in Targets(posts) :
        LET r == incrementViews(posts, store, id, quota) IN
        /\ Within(r.posts, maxPosts, maxSize)
        /\ Apply(r, "incrementViews", <<>>, <<>>, 0)
        /\ viewCalls' = IF r.ret = "true" THEN Counted(posts, viewCalls, id, maxSize) ELSE viewCalls
    /\ UNCHANGED <<postsType, ui, dom, phase, quota>>

Repository(maxPosts, maxSize) ==
    \/ AddPostCall(maxPosts, maxSize)
    \/ UpdatePostCall
    \/ DeletePostCall
    \/ AddRatingCall(maxPosts, maxSize)
    \/ IncrementViewsCall(maxPosts, maxSize)

\* The repository called directly; localStorage holds whatever is written
Next ==
    \/ init
    \/ Repository(MaxPosts, MaxSize)

Spec == Init /\ [][Next]_vars

\* The repository called directly; localStorage holds nothing (quota 0, as in
\* a private window) or the text of one post
Quotas == {<<0>>, <<Len(Trim(TitleB)) + Len(Trim(ContentB))>>}

InitF ==
    /\ posts = <<>>
    /\ postsType = "arr"
    /\ store \in {Absent, Text(LegacyBlob)}
    /\ currentEditId = Null
    /\ currentView = "list"
    /\ currentDetailPostId = Null
    /\ currentRatingPostId = Null
    /\ listShown = <<>>
    /\ detailShown = Null
    /\ phase = "boot"
    /\ quota \in Quotas
    /\ last = NoCall("load")
    /\ viewCalls = <<>>

NextF ==
    \/ init
    \/ Repository(MaxPostsF, MaxSizeF)

SpecF == InitF /\ [][NextF]_vars

-----------------------------------------------------------------------------
(* The controller: the handlers init registers, fired by what the page shows *)

\* the collections the controller is driven to: a post weighs two, a rating
\* and a view one each
WithinUI(ps, maxPosts, maxSize) == Len(ps) <= maxPosts /\ Len(ps) + Size(ps) <= maxSize

\* what a handler did: its name, its outcome, the number of setItem calls it
\* made, the alerts it raised and the view it was fired in
Event(op, ret, writes, alerts) ==
    [Call(op, Null, ret, writes, alerts, <<>>, <<>>, 0) EXCEPT !.from = currentView]

\* the event e of a request made for id, with that id when requests are noted
Requested(e, id, noted) == IF noted THEN [e EXCEPT !.id = id] ELSE e

\* the event e of a form submitted, with the title and the content of x when
\* the submissions are noted
Submitted(e, x, noted) ==
    IF noted THEN [e EXCEPT !.title = x.title, !.content = x.content] ELSE e

validatePostUntrimmed(title, content) ==
    /\ title # <<>>
    /\ Len(title) >= MinTitleLen
    /\ Len(title) <= MaxTitleLen
    /\ content # <<>>
    /\ Len(content) >= MinContentLen

\* validatePost, script.js:283-333
validatePost(title, content) ==
    /\ Trim(title) # <<>>
    /\ Len(Trim(title)) >= MinTitleLen
    /\ Len(Trim(title)) <= MaxTitleLen
    /\ Trim(content) # <<>>
    /\ Len(Trim(content)) >= MinContentLen

openEditModalUnchecked(ps, editId, id) == id

\* openEditModal(postId), script.js:600-611 : the value currentEditId has after it
openEditModal(ps, editId, id) == IF getPostById(ps, id) = Null THEN editId ELSE id

\* showPostDetail(postId), script.js:494-569
showPostDetail(ps, st, view, detailId, shown, id, q) ==
    IF getPostById(ps, id) = Null
    THEN [posts |-> ps, store |-> st, currentView |-> view, currentDetailPostId |-> detailId,
          detailShown |-> shown, found |-> FALSE, writes |-> 0, alerts |-> <<"Post not found">>]
    ELSE LET r == incrementViews(ps, st, id, q) IN
         [posts |-> r.posts, store |-> r.store, currentView |-> "detail",
          currentDetailPostId |-> id, detailShown |-> Display(getPostById(r.posts, id)),
          found |-> TRUE, writes |-> r.writes, alerts |-> r.alerts]

\* the data-id of the buttons on the part of the page that is displayed
Buttons ==
    IF currentView = "list" THEN {listShown[i].id : i \in 1..Len(listShown)}
    ELSE {detailShown.id}

\* the cards having a "view" button, script.js:419-426
ViewButtons ==
    IF currentView = "list"
    THEN {listShown[i].id : i \in {j \in 1..Len(listShown) : listShown[j].long}}
    ELSE {}

\* what the user types in the new-post form: a title and a content, with the
\* clock and the random number of the submission
LongContent == Rep("z", LongContentLen + 1)
ShortTitle == <<"a", "b", " ">>
ShortContent == <<" ">> \o Rep("x", MinContentLen - 1)
Forms == {[title |-> TitleA, content |-> ContentA, now |-> 1, rnd |-> 1],
          [title |-> TitleB, content |-> LongContent, now |-> 1, rnd |-> 2],
          [title |-> ShortTitle, content |-> ContentA, now |-> 1, rnd |-> 1],
          [title |-> TitleB, content |-> ShortContent, now |-> 1, rnd |-> 1]}

\* what the user leaves in the edit form when submitting it
EditForms == {[title |-> TitleB, content |-> LongContent, now |-> 1],
              [title |-> ShortTitle, content |-> LongContent, now |-> 1]}

\* the stars the user clicks
Stars == {4}

\* the data-rating attribute of star n (one decimal digit) and parseInt of it,
\* script.js:665 and 695
Digits == <<"0", "1", "2", "3", "4", "5", "6", "7", "8", "9">>
DataRating(n) == <<Digits[n + 1]>>
parseInt(s) == CHOOSE n \in 0..9 : Digits[n + 1] = s[1]

\* the star buttons openRatingModal creates, script.js:660-669
StarButtons == {DataRating(i) : i \in 1..NumStars}

\* handleNewPost, script.js:721-753
HandleNewPostOf(forms, noted, maxPosts, maxSize) ==
    /\ phase = "running"
    /\ \E x \in forms :
        IF validatePost(x.title, x.content)
        THEN LET r == addPost(posts, store, x.title, x.content, x.now, x.rnd, x.now, quota) IN
             /\ WithinUI(r.posts, maxPosts, maxSize)
             /\ posts' = r.posts
             /\ store' = r.store
             /\ listShown' = renderPosts(r.posts)
             /\ viewCalls' = <<0>> \o viewCalls
             /\ last' = Submitted(Event("handleNewPost", "post", r.writes, r.alerts), x, noted)
        ELSE /\ last' = Submitted(Event("handleNewPost", "invalid", 0, <<>>), x, noted)
             /\ UNCHANGED <<posts, store, listShown, viewCalls>>
    /\ UNCHANGED <<postsType, ui, detailShown, phase, quota>>

\* the submissions of the new-post form the model draws
HandleNewPost(maxPosts, maxSize) == HandleNewPostOf(Forms, FALSE, maxPosts, maxSize)

\* click on a "view" button: handlePostAction, script.js:798-819, calls showPostDetail
ClickViewOf(ids, noted, maxPosts, maxSize) ==
    /\ phase = "running"
    /\ \E id \in ids :
        LET r == showPostDetail(posts, store, currentView, currentDetailPostId, detailShown, id, quota) IN
        /\ WithinUI(r.posts, maxPosts, maxSize)
        /\ posts' = r.posts
        /\ store' = r.store
        /\ currentView' = r.currentView
        /\ currentDetailPostId' = r.currentDetailPostId
        /\ detailShown' = r.detailShown
        /\ viewCalls' = IF r.found THEN Counted(posts, viewCalls, id, maxSize) ELSE viewCalls
        /\ last' = Requested(Event("showPostDetail", IF r.found THEN "true" ELSE "false",
                                   r.writes, r.alerts), id, noted)
    /\ UNCHANGED <<postsType, currentEditId, currentRatingPostId, listShown, phase, quota>>

\* the clicks on the "view" buttons displayed
ClickView(maxPosts, maxSize) == ClickViewOf(ViewButtons, FALSE, maxPosts, maxSize)

ClickBackKeepsId ==
    /\ phase = "running"
    /\ currentView = "detail"
    /\ currentView' = "list"
    /\ detailShown' = Null
    /\ last' = Event("hidePostDetail", "void", 0, <<>>)
    /\ UNCHANGED <<posts, postsType, store, currentEditId, currentDetailPostId,
                   currentRatingPostId, listShown, phase, quota, viewCalls>>

ClickBackClosesModals ==
    /\ phase = "running"
    /\ currentView = "detail"
    /\ currentView' = "list"
    /\ currentDetailPostId' = Null
    /\ currentEditId' = Null
    /\ currentRatingPostId' = Null
    /\ detailShown' = Null
    /\ last' = Event("hidePostDetail", "void", 0, <<>>)
    /\ UNCHANGED <<posts, postsType, store, listShown, phase, quota, viewCalls>>

\* click on "back": handlePostAction calls hidePostDetail, script.js:574-590
ClickBack ==
    /\ phase = "running"
    /\ currentView = "detail"
    /\ currentView' = "list"
    /\ currentDetailPostId' = Null
    /\ detailShown' = Null
    /\ last' = Event("hidePostDetail", "void", 0, <<>>)
    /\ UNCHANGED <<posts, postsType, store, currentEditId, currentRatingPostId, listShown,
                   phase, quota, viewCalls>>

\* click on an "edit" button: handlePostAction calls openEditModal, script.js:600-624
ClickEditOf(ids, noted) ==
    /\ phase = "running"
    /\ \E id \in ids :
        /\ currentEditId' = openEditModal(posts, currentEditId, id)
        /\ last' = Requested(Event("openEditModal", "void", 0,
                                  IF getPostById(posts, id) = Null THEN <<"Post not found">>
                                  ELSE <<>>), id, noted)
    /\ UNCHANGED <<posts, postsType, store, currentView, currentDetailPostId, currentRatingPostId,
                   dom, phase, quota, viewCalls>>

\* the clicks on the "edit" buttons displayed
ClickEdit == ClickEditOf(Buttons, FALSE)

\* the close and cancel buttons of the edit modal and a click on its overlay:
\* closeEditModal, script.js:629-640 and 858-862
CloseEditModal ==
    /\ phase = "running"
    /\ currentEditId # Null
    /\ currentEditId' = Null
    /\ last' = Event("closeEditModal", "void", 0, <<>>)
    /\ UNCHANGED <<posts, postsType, store, currentView, currentDetailPostId, currentRatingPostId,
                   dom, phase, quota, viewCalls>>

\* click on a "rate" button: handlePostAction calls openRatingModal, script.js:650-674
ClickRateOf(ids, noted) ==
    /\ phase = "running"
    /\ \E id \in ids :
        /\ currentRatingPostId' = IF getPostById(posts, id) = Null THEN currentRatingPostId ELSE id
        /\ last' = Requested(Event("openRatingModal", "void", 0,
                                  IF getPostById(posts, id) = Null THEN <<"Post not found">>
                                  ELSE <<>>), id, noted)
    /\ UNCHANGED <<posts, postsType, store, currentEditId, currentView, currentDetailPostId,
                   dom, phase, quota, viewCalls>>

\* the clicks on the "rate" buttons displayed
ClickRate == ClickRateOf(Buttons, FALSE)

\* the close and cancel buttons of the rating modal and a click on its overlay:
\* closeRatingModal, script.js:679-684 and 890-899
CloseRatingModal ==
    /\ phase = "running"
    /\ currentRatingPostId # Null
    /\ currentRatingPostId' = Null
    /\ last' = Event("closeRatingModal", "void", 0, <<>>)
    /\ UNCHANGED <<posts, postsType, store, currentEditId, currentView, currentDetailPostId,
                   dom, phase, quota, viewCalls>>

EscapeLeavesDetail ==
    /\ phase = "running"
    /\ currentEditId # Null \/ currentRatingPostId # Null
    /\ currentEditId' = Null
    /\ currentRatingPostId' = Null
    /\ currentView' = "list"
    /\ currentDetailPostId' = Null
    /\ detailShown' = Null
    /\ last' = Event("Escape", "void", 0, <<>>)
    /\ UNCHANGED <<posts, postsType, store, listShown, phase, quota, viewCalls>>

\* the Escape key, script.js:901-911 : each modal that is open is closed
Escape ==
    /\ phase = "running"
    /\ currentEditId # Null \/ currentRatingPostId # Null
    /\ currentEditId' = Null
    /\ currentRatingPostId' = Null
    /\ last' = Event("Escape", "void", 0, <<>>)
    /\ UNCHANGED <<posts, postsType, store, currentView, currentDetailPostId,
                   dom, phase, quota, viewCalls>>

EditingKept(success, id) == id

\* handleEditPost, script.js:785-791 : closeEditModal() is called when
\* updatePost returned true, and not otherwise
EditingAfter(success, id) == IF success THEN Null ELSE id

\* submission of the edit form: handleEditPost, script.js:759-787
HandleEditPostOf(forms, noted) ==
    /\ phase = "running"
    /\ currentEditId # Null
    /\ \E x \in forms :
        IF validatePost(x.title, x.content)
        THEN LET r == updatePost(posts, store, currentEditId, x.title, x.content, x.now, quota) IN
             /\ posts' = r.posts
             /\ store' = r.store
             /\ currentEditId' = EditingAfter(r.ret = "true", currentEditId)
             /\ listShown' = IF r.ret = "true" THEN renderPosts(r.posts) ELSE listShown
             /\ last' = Submitted(Event("handleEditPost", r.ret, r.writes,
                                       IF r.ret = "true" THEN r.alerts
                                       ELSE r.alerts \o <<"Failed to update post">>), x, noted)
        ELSE /\ last' = Submitted(Event("handleEditPost", "invalid", 0, <<>>), x, noted)
             /\ UNCHANGED <<posts, store, currentEditId, listShown>>
    /\ UNCHANGED <<postsType, currentView, currentDetailPostId, currentRatingPostId,
                   detailShown, phase, quota, viewCalls>>

\* the submissions of the edit form the model draws
HandleEditPost == HandleEditPostOf(EditForms, FALSE)

\* click on a star of the rating modal: handleRatingClick, script.js:690-711.
\* After a successful addRating the modal is closed, which sets
\* currentRatingPostId to null, and in the detail view showPostDetail is then
\* called with currentRatingPostId
HandleRatingClickOf(stars, maxPosts, maxSize) ==
    /\ phase = "running"
    /\ currentRatingPostId # Null
    /\ \E star \in stars :
        LET rating == parseInt(star)
            r == addRating(posts, store, currentRatingPostId, rating, quota)
            closed == Null
            d == showPostDetail(r.posts, r.store, currentView, currentDetailPostId,
                                detailShown, closed, quota)
        IN  /\ WithinUI(r.posts, maxPosts, maxSize)
            /\ IF r.ret = "false"
               THEN /\ last' = Event("handleRatingClick", "false", 0,
                                    <<"Failed to add rating">>)
                    /\ UNCHANGED <<posts, store, currentRatingPostId, currentView,
                                   currentDetailPostId, dom, viewCalls>>
               ELSE IF currentView = "detail"
               THEN /\ WithinUI(d.posts, maxPosts, maxSize)
                    /\ posts' = d.posts
                    /\ store' = d.store
                    /\ currentRatingPostId' = closed
                    /\ currentView' = d.currentView
                    /\ currentDetailPostId' = d.currentDetailPostId
                    /\ detailShown' = d.detailShown
                    /\ viewCalls' = IF d.found THEN Counted(r.posts, viewCalls, closed, maxSize)
                                    ELSE viewCalls
                    /\ last' = Event("handleRatingClick", "true", r.writes + d.writes, r.alerts \o d.alerts)
                    /\ UNCHANGED listShown
               ELSE /\ posts' = r.posts
                    /\ store' = r.store
                    /\ currentRatingPostId' = closed
                    /\ listShown' = renderPosts(r.posts)
                    /\ last' = Event("handleRatingClick", "true", r.writes, r.alerts)
                    /\ UNCHANGED <<currentView, currentDetailPostId, detailShown, viewCalls>>
    /\ UNCHANGED <<postsType, currentEditId, phase, quota>>

\* the clicks on the stars the model draws
HandleRatingClick(maxPosts, maxSize) ==
    HandleRatingClickOf({DataRating(n) : n \in Stars}, maxPosts, maxSize)

ProceedsAnyway(confirm) == TRUE

\* handleDeletePost, script.js:832-839 : confirm() returned true
Proceeds(confirm) == confirm

\* the event e, with the answer given to the confirmation dialog it showed
Answered(e, confirm) == [e EXCEPT !.confirm = IF confirm THEN "proceed" ELSE "cancel"]

NeverShown(view, detailId, id) == FALSE

\* handleDeletePost, script.js:843 : the post deleted is the one in the detail view
ShownInDetail(view, detailId, id) == view = "detail" /\ detailId = id

\* click on a "delete" button: handlePostAction calls handleDeletePost,
\* script.js:825-852 ; confirm is the user's answer to the dialog
HandleDeletePostOf(ids, noted) ==
    /\ phase = "running"
    /\ \E id \in ids, confirm \in BOOLEAN :
        LET r == deletePost(posts, store, id, quota)
            hide == ShownInDetail(currentView, currentDetailPostId, id)
        IN  IF getPostById(posts, id) = Null
            THEN /\ last' = Requested(Event("handleDeletePost", "void", 0, <<"Post not found">>), id, noted)
                 /\ UNCHANGED <<posts, store, currentView, currentDetailPostId, dom, viewCalls>>
            ELSE IF ~Proceeds(confirm)
            THEN /\ last' = Requested(Answered(Event("handleDeletePost", "cancelled", 0, <<>>), confirm), id, noted)
                 /\ UNCHANGED <<posts, store, currentView, currentDetailPostId, dom, viewCalls>>
            ELSE IF r.ret = "true"
            THEN /\ posts' = r.posts
                 /\ store' = r.store
                 /\ currentView' = IF hide THEN "list" ELSE currentView
                 /\ currentDetailPostId' = IF hide THEN Null ELSE currentDetailPostId
                 /\ detailShown' = IF hide THEN Null ELSE detailShown
                 /\ listShown' = renderPosts(r.posts)
                 /\ viewCalls' = Splice(viewCalls, findIndex(posts, id))
                 /\ last' = Requested(Answered(Event("handleDeletePost", "true", r.writes, r.alerts), confirm), id, noted)
            ELSE /\ last' = Requested(Answered(Event("handleDeletePost", "false", r.writes,
                                          r.alerts \o <<"Failed to delete post">>), confirm), id, noted)
                 /\ UNCHANGED <<posts, store, currentView, currentDetailPostId, dom, viewCalls>>
    /\ UNCHANGED <<postsType, currentEditId, currentRatingPostId, phase, quota>>

\* the clicks on the "delete" buttons displayed
HandleDeletePost == HandleDeletePostOf(Buttons, FALSE)

Controller(maxPosts, maxSize) ==
    \/ HandleNewPost(maxPosts, maxSize)
    \/ ClickView(maxPosts, maxSize)
    \/ ClickBack
    \/ ClickEdit
    \/ CloseEditModal
    \/ ClickRate
    \/ CloseRatingModal
    \/ Escape
    \/ HandleEditPost
    \/ HandleRatingClick(maxPosts, maxSize)
    \/ HandleDeletePost

\* The page used through its controls; localStorage starts without the item
\* and every write succeeds
InitUI ==
    /\ posts = <<>>
    /\ postsType = "arr"
    /\ store = Absent
    /\ currentEditId = Null
    /\ currentView = "list"
    /\ currentDetailPostId = Null
    /\ currentRatingPostId = Null
    /\ listShown = <<>>
    /\ detailShown = Null
    /\ phase = "boot"
    /\ quota = <<>>
    /\ last = NoCall("load")
    /\ viewCalls = <<>>

NextUI ==
    \/ init
    \/ Reload
    \/ Controller(MaxPostsUI, MaxSizeUI)

SpecUI == InitUI /\ [][NextUI]_vars

\* The page used through its controls, any of the five stars clicked
\* (one post for every three units of size)
MaxPostsS == MaxSizeS \div 3

\* the edit form submitted with a second title, at a later time
StarsEditForms == EditForms \cup {[title |-> TitleA, content |-> LongContent, now |-> 2]}

NextStars ==
    \/ init
    \/ Reload
    \/ HandleNewPost(MaxPostsS, MaxSizeS)
    \/ ClickView(MaxPostsS, MaxSizeS)
    \/ ClickBack
    \/ ClickEdit
    \/ CloseEditModal
    \/ ClickRate
    \/ CloseRatingModal
    \/ Escape
    \/ HandleEditPostOf(StarsEditForms, FALSE)
    \/ HandleRatingClickOf(StarButtons, MaxPostsS, MaxSizeS)
    \/ HandleDeletePost

SpecStars == InitUI /\ [][NextStars]_vars

\* The two forms submitted with titles and contents on both sides of every
\* limit of validatePost
Blank == <<" ", "\n">>
TitleMin == Rep("t", MinTitleLen)
TitleMax == Rep("t", MaxTitleLen)
TitleMaxPadded == <<" ">> \o Rep("u", MaxTitleLen) \o <<" ">>
TitleTooLong == Rep("t", MaxTitleLen + 1)
ContentMin == Rep("x", MinContentLen)
ContentMinPadded == <<"\n">> \o Rep("w", MinContentLen) \o <<" ">>

FormTitles == {<<>>, Blank, ShortTitle, TitleMin, TitleMax, TitleMaxPadded, TitleTooLong}
FormContents == {<<>>, Blank, ShortContent, ContentMin, ContentMinPadded}

\* every title with a content that passes, every content with a title that
\* passes, and the empty form
FormTexts ==
    {<<t, ContentMin>> : t \in FormTitles} \cup {<<TitleMin, c>> : c \in FormContents}
        \cup {<<<<>>, <<>>>>}

NewForms ==
    {[title |-> x[1], content |-> x[2], now |-> 1, rnd |-> r] :
        x \in FormTexts, r \in 1..MaxPostsV}

EditedForms == {[title |-> x[1], content |-> x[2], now |-> 2] : x \in FormTexts}

NextForms ==
    \/ init
    \/ Reload
    \/ HandleNewPostOf(NewForms, TRUE, MaxPostsV, 2 * MaxPostsV)
    \/ ClickEdit
    \/ CloseEditModal
    \/ HandleEditPostOf(EditedForms, TRUE)
    \/ HandleDeletePost

SpecForms == InitUI /\ [][NextForms]_vars

\* The page used through its controls and through requests for an id that no
\* post has (each post may be opened once)
MaxSizeM == 3 * MaxPostsM

NextMissing ==
    \/ init
    \/ Reload
    \/ HandleNewPost(MaxPostsM, MaxSizeM)
    \/ ClickViewOf(ViewButtons \cup {MissingId}, TRUE, MaxPostsM, MaxSizeM)
    \/ ClickBack
    \/ ClickEditOf(Buttons \cup {MissingId}, TRUE)
    \/ CloseEditModal
    \/ ClickRateOf(Buttons \cup {MissingId}, TRUE)
    \/ CloseRatingModal
    \/ HandleDeletePostOf(Buttons \cup {MissingId}, TRUE)

SpecMissing == InitUI /\ [][NextMissing]_vars

\* The rating part of the cards of a list, for every average a post can have
\* and the values below 1.0
Averages ==
    {[type |-> "number", tenths |-> 0]}
        \cup {[type |-> "string", tenths |-> t] : t \in 0..(10 * NumStars)}

AverageLists == UNION {[1..n -> Averages] : n \in 1..MaxCards}

RenderStars ==
    /\ phase = "running"
    /\ listShown = <<>>
    /\ \E avgs \in AverageLists :
          listShown' = [i \in 1..Len(avgs) |-> StarsOfCard(avgs[i])]
    /\ last' = NoCall("generateStarDisplay")
    /\ UNCHANGED <<posts, postsType, store, ui, detailShown, phase, quota, viewCalls>>

NextDisplay ==
    \/ init
    \/ Reload
    \/ RenderStars

SpecDisplay == InitUI /\ [][NextDisplay]_vars

-----------------------------------------------------------------------------
(* Properties of the repository *)

Present(ps, id) == \E i \in 1..Len(ps) : ps[i].f.id = id

\* t is s without its leading and trailing white space
IsTrimOf(t, s) ==
    /\ t # <<>> => ~IsSpace(t[1]) /\ ~IsSpace(t[Len(t)])
    /\ \E i \in 0..Len(s) :
          /\ i + Len(t) <= Len(s)
          /\ SubSeq(s, i + 1, i + Len(t)) = t
          /\ \A k \in (1..i) \cup ((i + Len(t) + 1)..Len(s)) : IsSpace(s[k])

Mutations == {"addPost", "updatePost", "deletePost", "addRating", "incrementViews"}

\* C1: addPost(title, content) returns a post that getPostById then finds, with
\* the trimmed title and content, no ratings and no views; the call never
\* fails and the collection has exactly one post more.
C1_CreateThenFind ==
    [][last'.op = "addPost" =>
        LET found == getPostById(posts', last'.id) IN
        /\ last'.ret = "post"
        /\ found # Null
        /\ IsTrimOf(found.f.title, last'.title)
        /\ IsTrimOf(found.f.content, last'.content)
        /\ found.f.ratings = <<>>
        /\ found.f.views = 0
        /\ Len(posts') = Len(posts) + 1]_vars

\* a post was added to a collection that had one, from inputs with white space around
C1_Witness ==
    /\ last.op = "addPost"
    /\ Len(posts) = 2
    /\ last.title = TitleA
    /\ posts[1].f.title # last.title

\* C2: updatePost, deletePost, addRating and incrementViews on an id that no
\* post has return false, leave the collection as it is and write nothing to
\* localStorage.
C2_MissingIdNoEffect ==
    [][(last'.op \in Mutations \ {"addPost"} /\ ~Present(posts, last'.id)) =>
        /\ last'.ret = "false"
        /\ posts' = posts
        /\ store' = store
        /\ last'.writes = 0
        /\ last'.alerts = <<>>]_vars

\* a call on a missing id was made on a collection of two posts
C2_Witness ==
    /\ last.op = "addRating"
    /\ last.ret = "false"
    /\ ~Present(posts, last.id)
    /\ Len(posts) = 2

\* the posts of ps other than the one at index i, in order
Others(ps, i) == SubSeq(ps, 1, i - 1) \o SubSeq(ps, i + 1, Len(ps))

\* C3: after deletePost(id) on an id some post has, getPostById(id) finds
\* nothing, the collection has exactly one post less, and every other post is
\* still there, unchanged.
C3_DeleteThenFind ==
    [][(last'.op = "deletePost" /\ Present(posts, last'.id)) =>
        /\ getPostById(posts', last'.id) = Null
        /\ Len(posts') = Len(posts) - 1
        /\ \E i \in 1..Len(posts) : posts[i].f.id = last'.id /\ posts' = Others(posts, i)]_vars

\* C5: a post's views equal the number of successful incrementViews calls
\* made with its id since it was created (or loaded).
C5_ViewsEqualCalls ==
    \A i \in 1..Len(posts) : viewCalls[i] >= 0 => ViewsOf(posts[i]) = viewCalls[i]

-----------------------------------------------------------------------------
(* Properties of the persistence *)

\* the last step wrote the collection to localStorage
Saved == last.writes = 1 /\ last.alerts = <<>>

\* C7: when a save succeeds the stored text is the serialization of the whole
\* collection, and loading it (as init does after a reload) gives back exactly
\* the collection in memory.
C7_StoreMirrorsMemory ==
    Saved =>
        /\ store = Text(Stringify(posts))
        /\ loadPosts(store).value = [t |-> "arr", v |-> posts]

\* a rating was saved while the quota is limited and an older post carries
\* properties added after its creation
C7_Witness ==
    /\ Saved
    /\ quota # <<>>
    /\ last.op = "addRating"
    /\ \E i \in 1..Len(posts) : posts[i].keys # NewPost(Null, <<>>, <<>>, 0).keys

\* the post the calls with this id act on
Target(ps, id) == ps[CHOOSE i \in 1..Len(ps) :
                        ps[i].f.id = id /\ \A j \in 1..(i - 1) : ps[j].f.id # id]

\* the in-memory effect of the call recorded in c, from collection ps to ps2
Kept(c, ps, ps2) ==
    CASE c.op = "addPost"    -> Len(ps2) = Len(ps) + 1 /\ IsTrimOf(ps2[1].f.title, c.title)
      [] c.op = "updatePost" -> /\ Len(ps2) = Len(ps)
                                /\ IsTrimOf(Target(ps2, c.id).f.title, c.title)
                                /\ IsTrimOf(Target(ps2, c.id).f.content, c.content)
      [] c.op = "deletePost" -> Len(ps2) = Len(ps) - 1
      [] c.op = "addRating"  -> /\ Len(ps2) = Len(ps)
                                /\ getRatingCount(Target(ps2, c.id)) = getRatingCount(Target(ps, c.id)) + 1
      [] c.op = "incrementViews" ->
                                /\ Len(ps2) = Len(ps)
                                /\ ViewsOf(Target(ps2, c.id)) = ViewsOf(Target(ps, c.id)) + 1
      [] OTHER -> FALSE

\* C8: when setItem throws during addPost, or during a mutation of a post that
\* exists, the failure is reported by an alert, the change made in memory
\* stays, the call returns its success value, the stored item keeps its old
\* value and setItem was called once.
C8_FailedSaveKeepsMemory ==
    [][/\ (/\ last'.op \in Mutations
           /\ last'.op = "addPost" \/ Present(posts, last'.id)
           /\ setItemThrows(posts', quota)) =>
            /\ last'.alerts = <<"Failed to save posts">>
            /\ last'.ret \in {"post", "true"}
            /\ Kept(last', posts, posts')
            /\ store' = store
            /\ last'.writes = 1
       /\ last'.op \notin Mutations => (store' = store /\ last'.writes = 0)]_vars

\* an update changed a post's title in memory while the store refused the write
C8_Witness ==
    /\ last.op = "updatePost"
    /\ last.ret = "true"
    /\ last.alerts # <<>>
    /\ store.kind = "text"
    /\ store.text # Stringify(posts)
    /\ Len(posts) = 1
    /\ posts[1].f.title = Trim(TitleB)

\* C9: loadPosts returns a collection whatever localStorage holds (an empty one
\* when the item is absent or does not parse), so init runs to its end.
C9_LoadReturnsCollection ==
    last.op = "init" =>
        /\ postsType = "arr"
        /\ phase = "running"
        /\ store.kind \in {"absent", "empty", "garbage"} => posts = <<>>

\* C10: for a text written by savePosts, loadPosts followed at once by
\* savePosts writes the same text again.
C10_LoadSaveRoundTrip ==
    (store.kind = "text" /\ store.text.t = "arr") =>
        savePosts(loadPosts(store).value.v, Absent, <<>>).store = store

\* savePosts wrote a text in which a post has its views before its ratings
C10_Witness ==
    /\ Saved
    /\ store.kind = "text"
    /\ loadPosts(store).value.v = posts
    /\ \E i \in 1..Len(posts) :
          /\ Has(posts[i], "ratings") /\ Has(posts[i], "views")
          /\ posts[i].f.ratings # <<>>
          /\ posts[i].keys[Len(posts[i].keys)] = "ratings"

-----------------------------------------------------------------------------
(* The average rating: ratings are added to a post that already has some *)

Sample(r1, a, r2, b) == Rep(r1, a) \o Rep(r2, b)

Rated(rs) == Put(NewPost(generateId(1, 1), Trim(TitleA), Trim(ContentA), 1), "ratings", rs)

InitAvg ==
    /\ \E r1 \in 1..NumStars, r2 \in 1..NumStars, a \in 0..MaxSample, b \in 0..MaxSample :
          /\ a + b <= MaxSample
          /\ posts = <<Rated(Sample(r1, a, r2, b))>>
    /\ postsType = "arr"
    /\ store = Absent
    /\ currentEditId = Null
    /\ currentView = "list"
    /\ currentDetailPostId = Null
    /\ currentRatingPostId = Null
    /\ listShown = <<>>
    /\ detailShown = Null
    /\ phase = "running"
    /\ quota = <<>>
    /\ last = NoCall("load")
    /\ viewCalls = <<0>>

\* addRating(postId, rating) called with one of the five stars
RateCall ==
    /\ phase = "running"
    /\ last.op = "load"
    /\ \E id \in Targets(posts), rating \in 1..NumStars :
        Apply(addRating(posts, store, id, rating, quota), "addRating", <<>>, <<>>, rating)
    /\ UNCHANGED <<postsType, ui, dom, phase, quota, viewCalls>>

NextAvg == RateCall

SpecAvg == InitAvg /\ [][NextAvg]_vars

\* tenths / 10 is a one-decimal number nearest to the mean of rs
IsRoundedMean(tenths, rs) ==
    LET d == 10 * Reduce(rs) - tenths * Len(rs)
    IN  2 * d <= Len(rs) /\ -2 * d <= Len(rs)

-----------------------------------------------------------------------------
(* Properties of the controller *)

Views(ps) == [i \in 1..Len(ps) |-> ViewsOf(ps[i])]

Opened == last'.op = "showPostDetail" /\ last'.ret = "true"

\* C6: each time a post is opened in the detail view its views counter grows
\* by exactly 1 and no other counter moves; every other event of the controller
\* (a rating submitted in the detail view and what it re-renders, an edit,
\* back, delete, opening or closing a modal, a new post) leaves the views of
\* every post that remains as they were.
C6_OnlyOpeningCountsAView ==
    [][/\ Opened =>
            LET i == findIndex(posts, currentDetailPostId') IN
            /\ currentView' = "detail"
            /\ i # -1
            /\ Views(posts') = [Views(posts) EXCEPT ![i] = @ + 1]
            /\ last'.writes = 1
       /\ (~Opened /\ last'.op \notin {"init", "load"}) =>
            \/ Views(posts') = Views(posts)
            \/ /\ last'.op = "handleNewPost"
               /\ Views(posts') = <<0>> \o Views(posts)
            \/ /\ last'.op = "handleDeletePost"
               /\ \E i \in 1..Len(posts) :
                     posts' = Splice(posts, i) /\ Views(posts') = Splice(Views(posts), i)
      ]_vars

\* a post opened twice was rated in the detail view: its views are still 2
C6_Witness ==
    /\ last.op = "handleRatingClick"
    /\ last.ret = "true"
    /\ currentView = "detail"
    /\ \E i \in 1..Len(posts) :
          /\ posts[i].f.id = currentDetailPostId
          /\ ViewsOf(posts[i]) = 2
          /\ getRatingCount(posts[i]) = 1

-----------------------------------------------------------------------------
(* Properties of the collection *)

Ids(ps) == [i \in 1..Len(ps) |-> ps[i].f.id]

UniqueIds(ps) == \A i, j \in 1..Len(ps) : i # j => ps[i].f.id # ps[j].f.id

\* C11: no two posts of the collection ever have the same id, and updatePost,
\* addRating and incrementViews leave the id of every post as it was.
C11_IdsUniqueAndFixed ==
    /\ [](UniqueIds(posts))
    /\ [][last'.op \in {"updatePost", "addRating", "incrementViews"} =>
             Ids(posts') = Ids(posts)]_vars

\* ps2 is ps with at most the post at one position changed, its id kept
SamePlaces(ps, ps2) ==
    /\ Ids(ps2) = Ids(ps)
    /\ \E i \in 0..Len(ps) : \A j \in 1..Len(ps) : j # i => ps2[j] = ps[j]

\* C12: addPost puts the new post at index 0 in front of the others, and no
\* operation changes the relative order of the posts that remain: updatePost,
\* addRating and incrementViews change a post where it is, deletePost takes
\* one post out.  So the collection is always ordered newest-created first.
C12_NewestFirstOrderKept ==
    [][/\ last'.op = "addPost" =>
            /\ posts'[1].f.id = last'.id
            /\ Tail(posts') = posts
       /\ last'.op \in {"updatePost", "addRating", "incrementViews"} =>
            SamePlaces(posts, posts')
       /\ last'.op = "deletePost" =>
            \/ posts' = posts
            \/ \E i \in 1..Len(posts) : posts' = Others(posts, i)]_vars

\* the post created first was updated last: it carries the newer timestamp and
\* is still behind the post created after it
C12_Witness ==
    /\ last.op = "updatePost"
    /\ last.ret = "true"
    /\ Len(posts) = 2
    /\ posts[2].f.id = last.id
    /\ posts[1].f.id # last.id
    /\ posts[2].f.timestamp > posts[1].f.timestamp

\* vs2 is pointwise at least vs
NotBelow(vs, vs2) == Len(vs2) = Len(vs) /\ \A i \in 1..Len(vs) : vs2[i] >= vs[i]

\* C13: no step of the repository or of the controller lowers the views of a
\* post that is still in the collection after it.
C13_ViewsNeverDecrease ==
    [][last'.op \notin {"load", "init"} =>
        \/ NotBelow(Views(posts), Views(posts'))
        \/ /\ Len(posts') = Len(posts) + 1
           /\ NotBelow(Views(posts), Views(Tail(posts')))
        \/ \E i \in 1..Len(posts) :
              /\ Ids(posts') = Ids(Others(posts, i))
              /\ NotBelow(Views(Others(posts, i)), Views(posts'))]_vars

\* a post that has been viewed was updated and still has its views
C13_Witness ==
    /\ last.op = "updatePost"
    /\ last.ret = "true"
    /\ \E i \in 1..Len(posts) :
          /\ posts[i].f.id = last.id
          /\ ViewsOf(posts[i]) = 1
          /\ posts[i].f.title = Trim(last.title)

RatingsOf(post) == IF Has(post, "ratings") THEN post.f.ratings ELSE <<>>

AllRatings(ps) == [i \in 1..Len(ps) |-> RatingsOf(ps[i])]

\* each sequence of rs2 is the one of rs at the same place, or that with one
\* rating of 1..5 added at its end
Extended(rs, rs2) ==
    /\ Len(rs2) = Len(rs)
    /\ \A i \in 1..Len(rs) :
          \/ rs2[i] = rs[i]
          \/ \E x \in 1..NumStars : rs2[i] = Append(rs[i], x)

\* C14: when the page starts on an empty store and is used through its
\* controls, every rating of every post is an integer of 1..5 and every step
\* leaves the ratings of each remaining post as they were or adds one rating
\* at their end.
C14_RatingsAppendOnlyInRange ==
    /\ [](\A i \in 1..Len(posts) : \A k \in 1..Len(RatingsOf(posts[i])) :
              RatingsOf(posts[i])[k] \in 1..NumStars)
    /\ [][last'.op \notin {"load", "init"} =>
            \/ Extended(AllRatings(posts), AllRatings(posts'))
            \/ /\ Len(posts') = Len(posts) + 1
               /\ RatingsOf(posts'[1]) = <<>>
               /\ AllRatings(Tail(posts')) = AllRatings(posts)
            \/ \E i \in 1..Len(posts) :
                  /\ last'.op = "handleDeletePost"
                  /\ AllRatings(posts') = AllRatings(Others(posts, i))]_vars

\* the first and the last star were clicked, in this order, for one post
C14_Witness ==
    /\ last.op = "handleRatingClick"
    /\ last.ret = "true"
    /\ Len(posts) = 1
    /\ RatingsOf(posts[1]) = <<1, NumStars>>

-----------------------------------------------------------------------------
(* Properties of the view-state *)

\* C15: a confirmed delete that succeeds on the post shown in the detail view
\* leaves the list view and no detail post id; "back" leaves the list view and
\* no detail post id; a delete that succeeds on another post leaves the view
\* and the detail post id as they were.
C15_DeleteAndBackReturnToList ==
    [][/\ (last'.op = "handleDeletePost" /\ last'.ret = "true") =>
            \A i \in 1..Len(posts) :
                posts' = Others(posts, i) =>
                    IF currentView = "detail" /\ posts[i].f.id = currentDetailPostId
                    THEN currentView' = "list" /\ currentDetailPostId' = Null
                    ELSE UNCHANGED <<currentView, currentDetailPostId>>
       /\ last'.op = "hidePostDetail" =>
            /\ currentView = "detail"
            /\ currentView' = "list"
            /\ currentDetailPostId' = Null]_vars

\* the post shown in the detail view was deleted, another post remains and
\* the list is shown
C15_Witness ==
    /\ last.op = "handleDeletePost"
    /\ last.ret = "true"
    /\ last.from = "detail"
    /\ currentView = "list"
    /\ currentDetailPostId = Null
    /\ Len(posts) = 1

\* C16: a post is taken out of the collection only by a delete whose
\* confirmation dialog was answered "proceed"; when the answer is "cancel"
\* the collection, the stored item, the view-state and the page stay as they
\* are and nothing is written.
C16_DeleteOnlyWhenConfirmed ==
    [][/\ (last'.op # "load" /\ Len(posts') < Len(posts)) =>
            /\ last'.op = "handleDeletePost"
            /\ last'.confirm = "proceed"
       /\ last'.confirm = "cancel" =>
            /\ last'.ret = "cancelled"
            /\ last'.writes = 0
            /\ UNCHANGED <<posts, store, ui, dom>>]_vars

\* the dialog of a delete asked from the detail view was cancelled
C16_Witness ==
    /\ last.op = "handleDeletePost"
    /\ last.confirm = "cancel"
    /\ currentView = "detail"
    /\ getPostById(posts, currentDetailPostId) # Null

\* C17: a valid submission of the edit form calls updatePost for
\* currentEditId.  When that post exists it is overwritten in place, the modal
\* is closed (currentEditId is null) and the list is rendered again from the
\* collection; when it no longer exists "Failed to update post" is alerted,
\* currentEditId keeps its value and the collection and the stored item are
\* unchanged.
C17_EditSubmission ==
    [][(last'.op = "handleEditPost" /\ last'.ret # "invalid") =>
         IF getPostById(posts, currentEditId) # Null
         THEN /\ last'.ret = "true"
              /\ \E x \in EditForms :
                    LET r == updatePost(posts, store, currentEditId, x.title, x.content,
                                        x.now, quota)
                    IN  /\ validatePost(x.title, x.content)
                        /\ posts' = r.posts
                        /\ store' = r.store
              /\ currentEditId' = Null
              /\ listShown' = renderPosts(posts')
         ELSE /\ last'.ret = "false"
              /\ last'.alerts = <<"Failed to update post">>
              /\ currentEditId' = currentEditId
              /\ posts' = posts
              /\ store' = store]_vars

\* the edit form was submitted for a post deleted while the modal was open
C17_Witness ==
    /\ last.op = "handleEditPost"
    /\ last.ret = "false"
    /\ currentEditId # Null
    /\ getPostById(posts, currentEditId) = Null
    /\ posts # <<>>

\* the edit form was submitted for a post of the collection
C17_WitnessSaved ==
    /\ last.op = "handleEditPost"
    /\ last.ret = "true"
    /\ currentEditId = Null
    /\ \E i \in 1..Len(posts) : posts[i].f.title = Trim(TitleB) /\ listShown[i].title = Trim(TitleB)

\* C18: a click on a star of the rating modal, open for a post of the
\* collection, appends the rating to that post, closes the modal
\* (currentRatingPostId is null) and leaves the active view displaying the new
\* average and the new count: the list rendered from the collection, or the
\* detail panel of the post of currentDetailPostId.
C18_RatingShownInActiveView ==
    [][(last'.op = "handleRatingClick" /\ getPostById(posts, currentRatingPostId) # Null) =>
         LET i == findIndex(posts, currentRatingPostId)
             shown == getPostById(posts', currentDetailPostId')
         IN  /\ Len(RatingsOf(posts'[i])) = Len(RatingsOf(posts[i])) + 1
             /\ Extended(AllRatings(posts), AllRatings(posts'))
             /\ currentRatingPostId' = Null
             /\ IF currentView' = "list"
                THEN listShown' = renderPosts(posts')
                ELSE /\ shown # Null
                     /\ detailShown'.average = getAverageRating(shown)
                     /\ detailShown'.count = getRatingCount(shown)]_vars

\* the post of the detail view was rated while the list was displayed
C18_WitnessList ==
    /\ last.op = "handleRatingClick"
    /\ last.ret = "true"
    /\ currentView = "list"
    /\ posts # <<>>
    /\ listShown[1].count = 1

\* C19: closing the edit modal or the rating modal without submitting (its
\* close or cancel button, a click on its overlay, the Escape key) sets to
\* null the id of the modal closed and nothing else: the collection, the
\* stored item, the other modal's id, the view and the page are unchanged and
\* nothing is written.  Escape closes each modal that is open.
C19_ClosingAModalOnlyClearsItsId ==
    [][/\ last'.op \in {"closeEditModal", "closeRatingModal", "Escape"} =>
            /\ last'.writes = 0
            /\ UNCHANGED <<posts, store, currentView, currentDetailPostId, dom>>
       /\ last'.op = "closeEditModal" =>
            /\ currentEditId' = Null
            /\ UNCHANGED currentRatingPostId
       /\ last'.op = "closeRatingModal" =>
            /\ currentRatingPostId' = Null
            /\ UNCHANGED currentEditId
       /\ last'.op = "Escape" =>
            /\ currentEditId' = Null
            /\ currentRatingPostId' = Null]_vars

\* Escape was pressed in the detail view of a rated post
C19_Witness ==
    /\ last.op = "Escape"
    /\ last.from = "detail"
    /\ currentView = "detail"
    /\ currentEditId = Null
    /\ currentRatingPostId = Null
    /\ getPostById(posts, currentDetailPostId) # Null
    /\ RatingsOf(getPostById(posts, currentDetailPostId)) # <<>>

-----------------------------------------------------------------------------
(* Properties of the forms *)

\* the title and the content a form is rejected for
Rejected(title, content) ==
    \/ Trim(title) = <<>>
    \/ Len(Trim(title)) < MinTitleLen
    \/ Len(Trim(title)) > MaxTitleLen
    \/ Trim(content) = <<>>
    \/ Len(Trim(content)) < MinContentLen

WellFormed(post) ==
    /\ Len(Trim(post.f.title)) \in MinTitleLen..MaxTitleLen
    /\ Len(Trim(post.f.content)) >= MinContentLen

\* C20: a submission of the new-post form or of the edit form whose trimmed
\* title is empty, shorter than 3 or longer than 100, or whose trimmed content
\* is empty or shorter than 10, is rejected: the collection and the stored
\* item are unchanged and nothing is written.  And when the page starts on an
\* empty store every post of the collection has a trimmed title of 3 to 100
\* characters and a trimmed content of at least 10.
C20_InvalidFormsRejected ==
    /\ [](\A i \in 1..Len(posts) : WellFormed(posts[i]))
    /\ [][(last'.op \in {"handleNewPost", "handleEditPost"}
             /\ Rejected(last'.title, last'.content)) =>
            /\ last'.ret = "invalid"
            /\ last'.writes = 0
            /\ posts' = posts
            /\ store' = store]_vars

\* an edit with a title of 101 characters was rejected for a post whose title
\* has 100
C20_Witness ==
    /\ last.op = "handleEditPost"
    /\ last.ret = "invalid"
    /\ Len(Trim(last.title)) = MaxTitleLen + 1
    /\ Rejected(last.title, last.content)
    /\ posts # <<>>
    /\ getPostById(posts, currentEditId) # Null
    /\ Len(getPostById(posts, currentEditId).f.title) = MaxTitleLen

-----------------------------------------------------------------------------
(* Properties of the page *)

\* what the claim compares of a card or of the detail panel
Visible(d) == <<d.title, d.content, d.views, d.average, d.count>>

VisibleAll(ds) == [i \in 1..Len(ds) |-> Visible(ds[i])]

\* C21: once the page runs, the active view displays the current values of
\* the collection: in the list view each card shows the title, content, view
\* count, average and rating count its post has in memory, and in the detail
\* view the panel shows those of the post of currentDetailPostId.
C21_ActiveViewShowsMemory ==
    phase = "running" =>
        IF currentView = "list"
        THEN VisibleAll(listShown) = VisibleAll(renderPosts(posts))
        ELSE /\ getPostById(posts, currentDetailPostId) # Null
             /\ Visible(detailShown) = Visible(Display(getPostById(posts, currentDetailPostId)))

\* the detail panel kept the old title after the post it shows was edited
C21_StaleDetailAfterEdit ==
    /\ last.op = "handleEditPost"
    /\ last.ret = "true"
    /\ UniqueIds(posts)
    /\ currentView = "detail"
    /\ detailShown.title # getPostById(posts, currentDetailPostId).f.title

\* the list kept the old view count after the return from the detail view
C21_StaleListAfterBack ==
    /\ last.op = "hidePostDetail"
    /\ UniqueIds(posts)
    /\ currentView = "list"
    /\ \E i \in 1..Len(posts) : listShown[i].views # ViewsOf(posts[i])

-----------------------------------------------------------------------------
(* Properties of the star display *)

\* the number of stars of class c in a display
Tally(stars, c) == Cardinality({i \in 1..Len(stars) : stars[i] = c})

\* full stars first, then the half star, then the empty ones
InOrder(stars) ==
    \A i \in 1..Len(stars), j \in 1..Len(stars) :
        i < j => /\ stars[j] = "filled" => stars[i] = "filled"
                 /\ stars[i] = "empty" => stars[j] = "empty"

\* C22: for every average of 0.0 to 5.0 the display has floor(avg) full
\* stars, one half star exactly when the fractional part of avg is at least
\* 0.5 (and avg < 5), the others empty after them, five stars in all.
C22_StarsFollowTheAverage ==
    (phase = "running" /\ last.op = "generateStarDisplay") =>
        \A k \in 1..Len(listShown) :
            LET tenths == listShown[k].average.tenths
                stars == listShown[k].stars
                half == IF 2 * (tenths % 10) >= 10 /\ tenths < 10 * NumStars THEN 1 ELSE 0
            IN  /\ Tally(stars, "filled") = tenths \div 10
                /\ Tally(stars, "half") = half
                /\ Tally(stars, "empty") = NumStars - (tenths \div 10) - half
                /\ Len(stars) = NumStars
                /\ InOrder(stars)

\* a card of average 4.5 and a card of average 5.0 were rendered
C22_Witness ==
    /\ last.op = "generateStarDisplay"
    /\ Len(listShown) = 2
    /\ listShown[1].average = [type |-> "string", tenths |-> 45]
    /\ listShown[1].stars = <<"filled", "filled", "filled", "filled", "half">>
    /\ listShown[2].average = [type |-> "string", tenths |-> 50]
    /\ listShown[2].stars = <<"filled", "filled", "filled", "filled", "filled">>

-----------------------------------------------------------------------------
(* Properties of the posts of the first release *)

Zero == [type |-> "number", tenths |-> 0]

\* C23: for a post loaded without a ratings or a views property,
\* getAverageRating and getRatingCount return 0, addRating returns true and
\* leaves ratings holding the new rating alone, and incrementViews returns
\* true and leaves views at 1.
C23_OldPostsAreRatedAndCounted ==
    /\ [](\A i \in 1..Len(posts) :
             ~Has(posts[i], "ratings") =>
                 getAverageRating(posts[i]) = Zero /\ getRatingCount(posts[i]) = 0)
    /\ [][/\ (/\ last'.op = "addRating"
              /\ Present(posts, last'.id)
              /\ ~Has(Target(posts, last'.id), "ratings")) =>
                 /\ last'.ret = "true"
                 /\ RatingsOf(Target(posts', last'.id)) = <<last'.rating>>
          /\ (/\ last'.op = "incrementViews"
              /\ Present(posts, last'.id)
              /\ ~Has(Target(posts, last'.id), "views")) =>
                 /\ last'.ret = "true"
                 /\ ViewsOf(Target(posts', last'.id)) = 1]_vars

\* a post stored by the first release was opened and then rated
C23_Witness ==
    /\ last.op = "addRating"
    /\ last.ret = "true"
    /\ Len(posts) = 1
    /\ posts[1].keys = <<"id", "title", "content", "timestamp", "views", "ratings">>
    /\ posts[1].f.views = 1
    /\ posts[1].f.ratings = <<last.rating>>

-----------------------------------------------------------------------------
(* Properties of the fields *)

\* the title, content and timestamp of every post
Texted(ps) == [i \in 1..Len(ps) |-> <<ps[i].f.title, ps[i].f.content, ps[i].f.timestamp>>]

\* C24: updatePost(id, title, content) on an id some post has sets that
\* post's title and content to the trimmed arguments and its timestamp to the
\* time of the call, and leaves its id, ratings, views and position and every
\* other post as they were; addRating and incrementViews leave the title,
\* content and timestamp of every post as they were.
C24_UpdateTouchesThreeFields ==
    [][/\ (last'.op = "updatePost" /\ Present(posts, last'.id)) =>
            LET i == findIndex(posts, last'.id) IN
            /\ Len(posts') = Len(posts)
            /\ \A j \in 1..Len(posts) : j # i => posts'[j] = posts[j]
            /\ posts'[i].f.title = Trim(last'.title)
            /\ posts'[i].f.content = Trim(last'.content)
            /\ \E x \in Texts : /\ x.title = last'.title
                                /\ x.content = last'.content
                                /\ posts'[i].f.timestamp = x.now
            /\ posts'[i].f.id = posts[i].f.id
            /\ posts'[i].keys = posts[i].keys
            /\ RatingsOf(posts'[i]) = RatingsOf(posts[i])
            /\ ViewsOf(posts'[i]) = ViewsOf(posts[i])
       /\ last'.op \in {"addRating", "incrementViews"} => Texted(posts') = Texted(posts)]_vars

\* a post that was rated or opened was given another title, at a later time,
\* while another post was in the collection
C24_Witness ==
    /\ last.op = "updatePost"
    /\ last.ret = "true"
    /\ Len(posts) = 2
    /\ LET post == Target(posts, last.id) IN
          /\ post.f.title = Trim(last.title)
          /\ post.f.timestamp = 2
          /\ Len(RatingsOf(post)) + ViewsOf(post) > 0
          /\ post.f.id # generateId(2, 1)

ModalEvents ==
    {"openEditModal", "closeEditModal", "openRatingModal", "closeRatingModal", "Escape",
     "handleEditPost", "handleRatingClick"}

\* C25: opening or closing the edit or the rating modal and submitting an
\* edit or a rating leave currentView and currentDetailPostId as they were;
\* opening a post and going back leave currentEditId and currentRatingPostId
\* as they were.
C25_ModalsAndViewsIndependent ==
    [][/\ last'.op \in ModalEvents => UNCHANGED <<currentView, currentDetailPostId>>
       /\ last'.op \in {"showPostDetail", "hidePostDetail"} =>
            UNCHANGED <<currentEditId, currentRatingPostId>>]_vars

\* "back" was clicked while the edit modal was open
C25_Witness ==
    /\ last.op = "hidePostDetail"
    /\ currentView = "list"
    /\ currentEditId # Null
    /\ getPostById(posts, currentEditId) # Null

\* a rating was submitted from the detail view
C25_WitnessRated ==
    /\ last.op = "handleRatingClick"
    /\ last.ret = "true"
    /\ currentView = "detail"
    /\ currentRatingPostId = Null
    /\ getPostById(posts, currentDetailPostId) # Null

-----------------------------------------------------------------------------
(* Consistency of the view-state *)

\* C26: in every state currentView is "list" exactly when
\* currentDetailPostId is null, and in the detail view currentDetailPostId is
\* the id of a post of the collection.
C26_ViewStateConsistent ==
    /\ currentView = "list" <=> currentDetailPostId = Null
    /\ currentView = "detail" => getPostById(posts, currentDetailPostId) # Null

\* a post is shown in detail after another one was added to the collection
C26_Witness ==
    /\ currentView = "detail"
    /\ last.op = "handleNewPost"
    /\ last.ret = "post"
    /\ Len(posts) = 2
    /\ UniqueIds(posts)
    /\ posts[2].f.id = currentDetailPostId

\* C27: in every state currentEditId, when not null, and currentRatingPostId,
\* when not null, are ids of posts of the collection.
C27_ModalIdsReferToPosts ==
    /\ currentEditId # Null => getPostById(posts, currentEditId) # Null
    /\ currentRatingPostId # Null => getPostById(posts, currentRatingPostId) # Null

\* the post of the open edit modal was deleted, the dialog confirmed
C27_EditingADeletedPost ==
    /\ last.op = "handleDeletePost"
    /\ last.confirm = "proceed"
    /\ last.ret = "true"
    /\ currentEditId # Null
    /\ getPostById(posts, currentEditId) = Null

-----------------------------------------------------------------------------
(* Requests for a post that is not there *)

Requests == {"showPostDetail", "openEditModal", "openRatingModal", "handleDeletePost"}

\* C28: opening a post, opening the edit modal, opening the rating modal and
\* deleting, requested for an id no post of the collection has, only alert
\* "Post not found": currentView, currentDetailPostId, currentEditId,
\* currentRatingPostId, the collection with its view counters, the stored item
\* and the page are unchanged, nothing is written and the confirmation dialog
\* is not shown.
C28_MissingIdOnlyAlerts ==
    [][(last'.op \in Requests /\ getPostById(posts, last'.id) = Null) =>
         /\ last'.alerts = <<"Post not found">>
         /\ last'.confirm = "none"
         /\ last'.writes = 0
         /\ UNCHANGED <<posts, store, ui, dom>>]_vars

\* a delete was requested for a missing id while a post was shown in detail
\* and both modals were open
C28_Witness ==
    /\ last.op = "handleDeletePost"
    /\ last.id = MissingId
    /\ last.alerts = <<"Post not found">>
    /\ currentView = "detail"
    /\ currentEditId # Null
    /\ currentRatingPostId # Null
    /\ ViewsOf(getPostById(posts, currentDetailPostId)) = 1

====
